---- MODULE Spec2Model ----
(***************************************************************************)
(* ElementMaybeSignal<T, E> (src/core/element_maybe_signal.rs): a          *)
(* reference that is either a snapshot (Static) or a handle into the       *)
(* reactive runtime (Dynamic).  The accessors and conversions are          *)
(* translated from the source; the reactive cells they delegate to         *)
(* (ReadSignal, Memo, Signal::derive, NodeRef, owners) behave as the       *)
(* leptos runtime the source is compiled against: a write always notifies  *)
(* the subscribers of the written cell, a memo is created stale and        *)
(* recomputes when read stale, a derived signal is a stored closure run in *)
(* the reader's tracking context, and every cell dies with its owner.      *)
(***************************************************************************)
EXTENDS Naturals, Sequences, FiniteSets

\* ---------------------------------------------------------------- bounds
MaxRefs == 2
MaxLookups == 2
MaxRuns == 2

\* ---------------------------------------------------------------- values
None == "None"
Elements == {"e1", "e2"}
OptionT == Elements \cup {None}

\* what a valid selector can match in the document
CanMatch(s) == IF s = "#a" THEN Elements ELSE {"e2"}

\* selectors a caller may pass; "##" is not a valid selector
BadSelector == "##"
ValidSelectors == {"#a", "#b"}
Selectors == ValidSelectors \cup {BadSelector}

\* HtmlElement<R> instances a mounting layer may bind to a NodeRef<R>
HtmlElements == {[tag |-> "Div", node |-> n] : n \in Elements}
NoBinding == [tag |-> "None", node |-> None]

\* owners of reactive cells: the scope of the source cells and the scope in
\* which references (and the effects that read them) are created
OwnerSrc == "owner_src"
OwnerRef == "owner_ref"
Owners == {OwnerSrc, OwnerRef}

Effects == {"f1"}

Accessors == {"get", "try_get", "with", "try_with",
              "get_untracked", "try_get_untracked",
              "with_untracked", "try_with_untracked"}
TryAccessors == {"try_get", "try_with", "try_get_untracked", "try_with_untracked"}
UntrackedAccessors == {"get_untracked", "try_get_untracked",
                       "with_untracked", "try_with_untracked"}

\* ---------------------------------------------------------------- state
VARIABLES
    refs,       \* the references constructed so far (ElementMaybeSignal values)
    origin,     \* for each reference, the conversion that built it
    memo,       \* the memo created by the i-th conversion, if it created one
    lookups,    \* per reference, the number of query_selector calls made for it
    sel,        \* the reactive string cell (Signal<String>)
    opt,        \* the reactive optional cell (Signal<Option<T>>)
    plain,      \* the reactive plain cell (Signal<T>)
    node_ref,   \* the NodeRef<R>'s current binding
    doc,        \* the document: what each valid selector matches
    disposed,   \* the owners that have been disposed
    effects,    \* the computations reading references
    last        \* the last operation and what it returned

vars == <<refs, origin, memo, lookups, sel, opt, plain, node_ref, doc,
          disposed, effects, last>>

RefIds == 1..MaxRefs

\* ------------------------------------------------------- accessor results
Val(v) == [k |-> "value", v |-> v]          \* Option<T> (for try_: Some(Option<T>))
NoResult == [k |-> "no_result", v |-> None] \* the outer None of a try_ accessor
Panic == [k |-> "panic", v |-> None]

\* ---------------------------------------------------------- signal handles
NoSig == [type |-> "NoSig", memo |-> 0, src |-> "none"]
MemoSig(i) == [type |-> "Memo", memo |-> i, src |-> "sel"]
ReadSig(s) == [type |-> "ReadSignal", memo |-> 0, src |-> s]
DerivedSig(s) == [type |-> "DerivedSignal", memo |-> 0, src |-> s]

\* ------------------------------------------------------------- the enum
Static(t) == [variant |-> "Static", snap |-> t, sig |-> NoSig]
Dynamic(s) == [variant |-> "Dynamic", snap |-> None, sig |-> s]
Phantom == [variant |-> "_Phantom", snap |-> None, sig |-> NoSig]

\* ------------------------------------------------------ the query primitive
\* document().query_selector(s): Err for an invalid selector, else Ok(match)
query_selector(d, s) ==
    IF s \in ValidSelectors THEN [ok |-> TRUE, val |-> d[s]]
    ELSE [ok |-> FALSE, val |-> "SyntaxError"]

\* Result::unwrap(): an Err aborts
unwrap(r) == IF r.ok THEN r.val ELSE "panicked"

\* Result<Option<Element>, JsValue>::unwrap_or_default()
unwrap_or_default(r) == IF r.ok THEN r.val ELSE None

\* el.into_any(); el.deref().clone().into(): the web_sys node behind the handle
IntoAny(el) == [tag |-> "Any", node |-> el.node]
ConvertEl(el) == IntoAny(el).node


\* ----------------------------------------------------------- runtime cells
\* a memo node: created stale with no value; key is the string its closure
\* last passed to query_selector; tracks says it is subscribed to sel
NoMemo == [exists |-> FALSE, state |-> "Dirty", hasVal |-> FALSE,
           val |-> None, key |-> "none", tracks |-> FALSE]
NewMemo == [NoMemo EXCEPT !.exists = TRUE]

\* nodes of the reactive graph an effect can subscribe to
SrcNode(s) == <<s, 0>>
MemoNode(i) == <<"memo", i>>

NoEffect == [created |-> FALSE, ref |-> 0, acc |-> "none", runs |-> 0, deps |-> {}]

IsDisposed(o) == o \in disposed

\* the closure Signal::derive stores, by the cell it captures
\*   impl_from_signal!:   move || Some(signal.get())
\*   impl_from_node_ref!: move || node_ref.get().map(|el| el.into_any() ... .into())
DeriveClosure(s) ==
    IF s = "plain" THEN plain
    ELSE IF node_ref = NoBinding THEN None ELSE ConvertEl(node_ref)

\* the closure create_memo stores:
\*   move |_| document().query_selector(&signal.get()).unwrap_or_default()
MemoClosure == unwrap_or_default(query_selector(doc, sel))

\* what a read does: the value it returns, the node the reader subscribes to
\* (none for an untracked read or outside a computation) and whether the
\* memo's closure ran
ReadOf(out, dep, recompute) == [out |-> out, dep |-> dep, recompute |-> recompute]
Dead(isTry) == ReadOf(IF isTry THEN NoResult ELSE Panic, {}, FALSE)

\* ReadSignal<Option<T>>: (try_)get / (try_)get_untracked of a plain cell
ReadSignalRead(s, isTry, isTracked) ==
    IF IsDisposed(OwnerSrc) THEN Dead(isTry)
    ELSE ReadOf(Val(opt), IF isTracked THEN {SrcNode(s.src)} ELSE {}, FALSE)

\* Signal::derive: the stored closure is called in the reader's context (under
\* untrack for the untracked accessors); the closure's own get() of its source
\* is the non-try form
DerivedSignalRead(s, isTry, isTracked) ==
    IF IsDisposed(OwnerRef) THEN Dead(isTry)
    ELSE IF IsDisposed(OwnerSrc) THEN ReadOf(Panic, {}, FALSE)
    ELSE ReadOf(Val(DeriveClosure(s.src)),
                IF isTracked THEN {SrcNode(s.src)} ELSE {}, FALSE)

\* (variant: no memoization, the closure runs at every read)
MemoReadNoCache(s, isTry, isTracked) ==
    IF IsDisposed(OwnerRef) THEN Dead(isTry)
    ELSE IF IsDisposed(OwnerSrc) THEN ReadOf(Panic, {}, FALSE)
    ELSE ReadOf(Val(MemoClosure), IF isTracked THEN {MemoNode(s.memo)} ELSE {}, TRUE)

\* Memo: subscribe the reader, bring the memo up to date if it is stale (its
\* closure runs with the memo as observer), return the cached value
MemoRead(s, isTry, isTracked) ==
    IF IsDisposed(OwnerRef) THEN Dead(isTry)
    ELSE IF memo[s.memo].state = "Dirty"
         THEN IF IsDisposed(OwnerSrc) THEN ReadOf(Panic, {}, FALSE)
              ELSE ReadOf(Val(MemoClosure),
                          IF isTracked THEN {MemoNode(s.memo)} ELSE {}, TRUE)
         ELSE ReadOf(Val(memo[s.memo].val),
                     IF isTracked THEN {MemoNode(s.memo)} ELSE {}, FALSE)

\* Signal<Option<T>>: dispatch on the kind of cell behind the handle
SignalRead(s, isTry, isTracked) ==
    CASE s.type = "ReadSignal" -> ReadSignalRead(s, isTry, isTracked)
      [] s.type = "DerivedSignal" -> DerivedSignalRead(s, isTry, isTracked)
      [] s.type = "Memo" -> MemoRead(s, isTry, isTracked)
      [] OTHER -> ReadOf(Panic, {}, FALSE)

\* unreachable!()
Unreachable == ReadOf(Panic, {}, FALSE)

\* -------------------------------------------- the accessors of the enum
\* the closure f passed to the with-forms is the caller's; it is modelled as
\* returning what it is shown
get(r) ==
    CASE r.variant = "Static" -> ReadOf(Val(r.snap), {}, FALSE)
      [] r.variant = "Dynamic" -> SignalRead(r.sig, FALSE, TRUE)
      [] OTHER -> Unreachable

\* (variant: the Static arm also asks the runtime whether the owner lives)
try_get_checks_owner(r) ==
    CASE r.variant = "Static" ->
            IF disposed # {} THEN Dead(TRUE) ELSE ReadOf(Val(r.snap), {}, FALSE)
      [] r.variant = "Dynamic" -> SignalRead(r.sig, TRUE, TRUE)
      [] OTHER -> Unreachable

try_get(r) ==
    CASE r.variant = "Static" -> ReadOf(Val(r.snap), {}, FALSE)
      [] r.variant = "Dynamic" -> SignalRead(r.sig, TRUE, TRUE)
      [] OTHER -> Unreachable

with(r) ==
    CASE r.variant = "Static" -> ReadOf(Val(r.snap), {}, FALSE)
      [] r.variant = "Dynamic" -> SignalRead(r.sig, FALSE, TRUE)
      [] OTHER -> Unreachable

try_with(r) ==
    CASE r.variant = "Static" -> ReadOf(Val(r.snap), {}, FALSE)
      [] r.variant = "Dynamic" -> SignalRead(r.sig, TRUE, TRUE)
      [] OTHER -> Unreachable

with_untracked(r) ==
    CASE r.variant = "Static" -> ReadOf(Val(r.snap), {}, FALSE)
      [] r.variant = "Dynamic" -> SignalRead(r.sig, FALSE, FALSE)
      [] OTHER -> Unreachable

try_with_untracked(r) ==
    CASE r.variant = "Static" -> ReadOf(Val(r.snap), {}, FALSE)
      [] r.variant = "Dynamic" -> SignalRead(r.sig, TRUE, FALSE)
      [] OTHER -> Unreachable

\* (variant: the Dynamic arm delegates to the tracked s.get())
get_untracked_tracks(r) ==
    CASE r.variant = "Static" -> ReadOf(Val(r.snap), {}, FALSE)
      [] r.variant = "Dynamic" -> SignalRead(r.sig, FALSE, TRUE)
      [] OTHER -> Unreachable

get_untracked(r) ==
    CASE r.variant = "Static" -> ReadOf(Val(r.snap), {}, FALSE)
      [] r.variant = "Dynamic" -> SignalRead(r.sig, FALSE, FALSE)
      [] OTHER -> Unreachable

try_get_untracked(r) ==
    CASE r.variant = "Static" -> ReadOf(Val(r.snap), {}, FALSE)
      [] r.variant = "Dynamic" -> SignalRead(r.sig, TRUE, FALSE)
      [] OTHER -> Unreachable

Access(r, acc) ==
    CASE acc = "get" -> get(r)
      [] acc = "try_get" -> try_get(r)
      [] acc = "with" -> with(r)
      [] acc = "try_with" -> try_with(r)
      [] acc = "with_untracked" -> with_untracked(r)
      [] acc = "try_with_untracked" -> try_with_untracked(r)
      [] acc = "get_untracked" -> get_untracked(r)
      [] acc = "try_get_untracked" -> try_get_untracked(r)

\* ----------------------------------------------------------- Default, Clone
\* (variant: Default yields the marker arm)
default_phantom == Phantom

default == Static(None)

\* (variant: cloning a Dynamic reference copies the current value)
clone_snapshot(r) ==
    CASE r.variant = "Static" -> Static(r.snap)
      [] r.variant = "Dynamic" -> Static(get_untracked(r).out.v)
      [] OTHER -> Phantom

clone(r) ==
    CASE r.variant = "Static" -> Static(r.snap)
      [] r.variant = "Dynamic" -> Dynamic(r.sig)
      [] OTHER -> Phantom

\* ------------------------------------------------------------ conversions
from_T(value) == Static(value)
from_Option(target) == Static(target)
\* (variant: the static selector is resolved lazily, like the reactive one)
from_str_lazy(target) == Dynamic(MemoSig(1))
\* (variant: a failed lookup is unwrapped)
from_String_unwrap(target) == Static(unwrap(query_selector(doc, target)))
\* (variant: the handle's binding is read once, at conversion)
from_node_ref_snapshot(n) == Static(DeriveClosure(n))

from_str(target) == Static(unwrap_or_default(query_selector(doc, target)))
from_String(target) == Static(unwrap_or_default(query_selector(doc, target)))
\* create_memo(..).into(): the handle of the memo the conversion creates
from_Signal_String(i) == Dynamic(MemoSig(i))
from_signal_option(target) == Dynamic(ReadSig(target))
from_signal(signal) == Dynamic(DerivedSig(signal))
from_node_ref(n) == Dynamic(DerivedSig(n))


\* ================================================================ actions
Op(op, out) == [op |-> op, out |-> out]
Origin(how, of, arg) == [how |-> how, of |-> of, arg |-> arg]

Init ==
    /\ refs = <<>>
    /\ origin = <<>>
    /\ memo = [i \in RefIds |-> NoMemo]
    /\ lookups = [i \in RefIds |-> 0]
    /\ sel = "#a"
    /\ opt = None
    /\ plain = "e1"
    /\ node_ref = NoBinding
    /\ doc = [s \in ValidSelectors |-> IF s = "#a" THEN "e1" ELSE None]
    /\ disposed = {}
    /\ effects = [e \in Effects |-> NoEffect]
    /\ last = Op("init", NoResult)

\* a conversion returns reference r; m is the memo it created (if any) and n
\* the number of lookups it made
Construct(r, how, of, arg, m, n) ==
    /\ Len(refs) < MaxRefs
    /\ how # "clone" => refs = <<>>
    /\ refs' = Append(refs, r)
    /\ origin' = Append(origin, Origin(how, of, arg))
    /\ memo' = [memo EXCEPT ![Len(refs) + 1] = m]
    /\ lookups' = [lookups EXCEPT ![Len(refs) + 1] = n]
    /\ last' = Op(how, NoResult)
    /\ UNCHANGED <<sel, opt, plain, node_ref, doc, disposed, effects>>

Default == Construct(default, "default", 0, "none", NoMemo, 0)
FromT == \E v \in Elements : Construct(from_T(v), "T", 0, v, NoMemo, 0)
FromOption == \E o \in OptionT : Construct(from_Option(o), "Option", 0, o, NoMemo, 0)
FromStr == \E s \in Selectors : Construct(from_str(s), "str", 0, s, NoMemo, 1)
FromString == \E s \in Selectors : Construct(from_String(s), "String", 0, s, NoMemo, 1)
FromSignalString ==
    /\ ~IsDisposed(OwnerRef)
    /\ Construct(from_Signal_String(Len(refs) + 1), "Signal<String>", 0, "sel", NewMemo, 0)
FromSignalOption == Construct(from_signal_option("opt"), "Signal<Option<T>>", 0, "opt", NoMemo, 0)
FromSignal ==
    /\ ~IsDisposed(OwnerRef)
    /\ Construct(from_signal("plain"), "Signal<T>", 0, "plain", NoMemo, 0)
FromNodeRef ==
    /\ ~IsDisposed(OwnerRef)
    /\ Construct(from_node_ref("node_ref"), "NodeRef", 0, "node_ref", NoMemo, 0)
Clone == \E i \in DOMAIN refs : Construct(clone(refs[i]), "clone", i, "none", NoMemo, 0)

\* (variant: the closure reads the string untracked, so the memo never
\* subscribes to it)
MemoAfterUntracked(r, res) ==
    IF res.recompute
    THEN [memo EXCEPT ![r.sig.memo] =
            [exists |-> TRUE, state |-> "Clean", hasVal |-> TRUE,
             val |-> res.out.v, key |-> sel, tracks |-> FALSE]]
    ELSE memo

\* the memo and the lookup count after read result res of reference r
MemoAfter(r, res) ==
    IF res.recompute
    THEN [memo EXCEPT ![r.sig.memo] =
            [exists |-> TRUE, state |-> "Clean", hasVal |-> TRUE,
             val |-> res.out.v, key |-> sel, tracks |-> TRUE]]
    ELSE memo
LookupsAfter(r, res) ==
    IF res.recompute THEN [lookups EXCEPT ![r.sig.memo] = @ + 1] ELSE lookups
LookupRoom(r, res) == res.recompute => lookups[r.sig.memo] < MaxLookups

\* an accessor called outside any computation
Read(i, acc) ==
    LET res == Access(refs[i], acc) IN
    /\ LookupRoom(refs[i], res)
    /\ memo' = MemoAfter(refs[i], res)
    /\ lookups' = LookupsAfter(refs[i], res)
    /\ last' = Op("read", res.out)
    /\ UNCHANGED <<refs, origin, sel, opt, plain, node_ref, doc, disposed, effects>>

\* create_effect(move |_| { reference.acc(); }): the effect's first run
CreateEffect(e, i, acc) ==
    LET res == Access(refs[i], acc) IN
    /\ ~effects[e].created
    /\ ~IsDisposed(OwnerRef)
    /\ res.out # Panic
    /\ LookupRoom(refs[i], res)
    /\ memo' = MemoAfter(refs[i], res)
    /\ lookups' = LookupsAfter(refs[i], res)
    /\ effects' = [effects EXCEPT ![e] =
            [created |-> TRUE, ref |-> i, acc |-> acc, runs |-> 1, deps |-> res.dep]]
    /\ last' = Op("effect", res.out)
    /\ UNCHANGED <<refs, origin, sel, opt, plain, node_ref, doc, disposed>>

\* the effects whose run subscribed them to node n
Subscribers(n) == {e \in Effects : n \in effects[e].deps}

\* the effects in es run again: their sources are cleared and their body
\* reads its reference in the new state
Rerun(es) ==
    LET after == [i \in DOMAIN refs, a \in Accessors |-> Access(refs[i], a)']
        body(e) == after[effects[e].ref, effects[e].acc]
    IN
    /\ \A e \in es : effects[e].runs < MaxRuns
    /\ effects' = [e \in Effects |->
            IF e \in es
            THEN [effects[e] EXCEPT
                    !.runs = @ + 1, !.deps = body(e).dep]
            ELSE effects[e]]

\* a write to a source cell: every subscriber is notified, whatever the value
SetOpt(o) ==
    /\ ~IsDisposed(OwnerSrc)
    /\ opt' = o
    /\ last' = Op("set_opt", NoResult)
    /\ UNCHANGED <<refs, origin, memo, lookups, sel, plain, node_ref, doc, disposed>>
    /\ Rerun(Subscribers(SrcNode("opt")))

SetPlain(v) ==
    /\ ~IsDisposed(OwnerSrc)
    /\ plain' = v
    /\ last' = Op("set_plain", NoResult)
    /\ UNCHANGED <<refs, origin, memo, lookups, sel, opt, node_ref, doc, disposed>>
    /\ Rerun(Subscribers(SrcNode("plain")))

\* NodeRef::load: the mounting layer binds (or rebinds) the handle
Load(el) ==
    /\ ~IsDisposed(OwnerSrc)
    /\ node_ref' = el
    /\ last' = Op("load", NoResult)
    /\ UNCHANGED <<refs, origin, memo, lookups, sel, opt, plain, doc, disposed>>
    /\ Rerun(Subscribers(SrcNode("node_ref")))

\* a write to the string cell: every memo subscribed to it becomes stale; a
\* stale memo with subscribed effects is brought up to date at once (the
\* effects are checked before the write returns), and the effects run again
\* only if the memo's value changed
MemoChecked(i) == memo[i].exists /\ memo[i].tracks /\ Subscribers(MemoNode(i)) # {}
MemoOnSet(i, s) ==
    IF ~(memo[i].exists /\ memo[i].tracks) THEN memo[i]
    ELSE IF MemoChecked(i)
         THEN [memo[i] EXCEPT !.state = "Clean", !.hasVal = TRUE,
                 !.val = unwrap_or_default(query_selector(doc, s)), !.key = s]
         ELSE [memo[i] EXCEPT !.state = "Dirty"]

SetSel(s) ==
    /\ ~IsDisposed(OwnerSrc)
    /\ \A i \in RefIds : MemoChecked(i) => lookups[i] < MaxLookups
    /\ sel' = s
    /\ memo' = [i \in RefIds |-> MemoOnSet(i, s)]
    /\ lookups' = [i \in RefIds |-> IF MemoChecked(i) THEN lookups[i] + 1 ELSE lookups[i]]
    /\ last' = Op("set_sel", NoResult)
    /\ UNCHANGED <<refs, origin, opt, plain, node_ref, doc, disposed>>
    /\ Rerun(UNION {Subscribers(MemoNode(i)) :
                i \in {j \in RefIds : MemoChecked(j) /\ memo'[j].val # memo[j].val}})

\* the document changes: an element is added, removed or replaced
SetDoc(s, x) ==
    /\ doc[s] # x
    /\ doc' = [doc EXCEPT ![s] = x]
    /\ last' = Op("set_doc", NoResult)
    /\ UNCHANGED <<refs, origin, memo, lookups, sel, opt, plain, node_ref, disposed, effects>>

\* an owner is disposed: its cells leave the reactive graph
Dispose(o) ==
    /\ o \notin disposed
    /\ disposed' = disposed \cup {o}
    /\ memo' = [i \in RefIds |-> [memo[i] EXCEPT !.tracks = FALSE]]
    /\ effects' = [e \in Effects |->
            [effects[e] EXCEPT !.deps =
                IF o = OwnerRef THEN {}
                ELSE {n \in @ : n[1] = "memo"}]]
    /\ last' = Op("dispose", NoResult)
    /\ UNCHANGED <<refs, origin, lookups, sel, opt, plain, node_ref, doc>>

\* ---------------------------------------------------------- specifications
Reads == \E i \in DOMAIN refs, acc \in Accessors : Read(i, acc)
Runs == \E e \in Effects, i \in DOMAIN refs, acc \in Accessors : CreateEffect(e, i, acc)
Disposes == \E o \in Owners : Dispose(o)
DocChanges == \E s \in ValidSelectors : \E x \in CanMatch(s) \cup {None} : SetDoc(s, x)
SelWrites == \E s \in Selectors : SetSel(s)
OptWrites == \E o \in OptionT : SetOpt(o)
PlainWrites == \E v \in Elements : SetPlain(v)
Loads == \E el \in HtmlElements : Load(el)

\* every conversion, accessor and write
Next ==
    \/ Default \/ FromT \/ FromOption \/ FromStr \/ FromString
    \/ FromSignalString \/ FromSignalOption \/ FromSignal \/ FromNodeRef
    \/ Clone
    \/ Reads \/ Runs
    \/ SelWrites \/ OptWrites \/ PlainWrites \/ Loads
    \/ DocChanges \/ Disposes

Spec == Init /\ [][Next]_vars

\* selector resolution: the static and the reactive string conversions, while
\* the owners live
NextSelector ==
    \/ FromStr \/ FromString \/ FromSignalString \/ Clone
    \/ Reads \/ Runs \/ SelWrites \/ DocChanges

SpecSelector == Init /\ [][NextSelector]_vars

\* the conversions that produce a Static reference
NextFixed ==
    \/ Default \/ FromT \/ FromOption \/ FromStr \/ FromString \/ Clone
    \/ Reads \/ Runs \/ OptWrites \/ DocChanges \/ Disposes

SpecFixed == Init /\ [][NextFixed]_vars

\* the conversions that wrap a reactive cell or a NodeRef, with disposal
NextLive ==
    \/ FromSignalOption \/ FromSignal \/ FromNodeRef \/ Clone
    \/ Reads \/ Runs \/ OptWrites \/ PlainWrites \/ Loads \/ Disposes

SpecLive == Init /\ [][NextLive]_vars

\* every conversion that produces a Dynamic reference, while the owners live
NextDynamic ==
    \/ FromSignalOption \/ FromSignal \/ FromNodeRef \/ FromSignalString \/ Clone
    \/ Reads \/ Runs \/ OptWrites \/ PlainWrites \/ Loads \/ SelWrites

SpecDynamic == Init /\ [][NextDynamic]_vars

\* every way to obtain a reference
NextShapes ==
    \/ Default \/ FromT \/ FromOption \/ FromStr \/ FromString
    \/ FromSignalString \/ FromSignalOption \/ FromSignal \/ FromNodeRef
    \/ Clone
    \/ Reads \/ Runs \/ Disposes

SpecShapes == Init /\ [][NextShapes]_vars

\* ============================================================= properties
RECURSIVE RootOf(_)
RootOf(i) == IF origin[i].how = "clone" THEN RootOf(origin[i].of) ELSE i
HowOf(i) == origin[RootOf(i)].how

MemoRefs == {i \in DOMAIN refs : origin[i].how = "Signal<String>"}
StrRefs == {i \in DOMAIN refs : origin[i].how \in {"str", "String"}}
NodeRefRefs == {i \in DOMAIN refs : HowOf(i) = "NodeRef"}
Lookup(s) == unwrap_or_default(query_selector(doc, s))
NoMatch(s) == s \notin ValidSelectors \/ doc[s] = None

C5_ChangeOneLookup ==
    [][\A i \in MemoRefs :
          /\ (last'.op = "set_sel" /\ sel' # sel /\ memo[i].state = "Clean" /\ memo[i].tracks) =>
                \/ memo'[i].state = "Dirty" /\ lookups'[i] = lookups[i]
                \/ /\ memo'[i].state = "Clean" /\ memo'[i].key = sel'
                   /\ memo'[i].val = Lookup(sel')
                   /\ lookups'[i] = lookups[i] + 1
          /\ (last'.op = "read" /\ last'.out.k = "value") =>
                /\ memo'[i].state = "Clean" /\ memo'[i].key = sel
                /\ last'.out.v = memo'[i].val
                /\ lookups'[i] = lookups[i] + (IF memo[i].state = "Dirty" THEN 1 ELSE 0)
                /\ memo[i].state = "Dirty" => last'.out.v = Lookup(sel)]_vars

\* after "#a" was looked up the string became "#b", and a read returned the
\* element "#b" matches, at the cost of the second lookup
C5_Witness ==
    \E i \in MemoRefs :
        /\ last.op = "read" /\ last.out = Val("e2")
        /\ sel = "#b" /\ memo[i].key = "#b" /\ memo[i].state = "Clean"
        /\ lookups[i] = 2

\* C4: a reference built from a static selector string made exactly one
\* lookup, at construction; it is Static, every accessor returns its snapshot
\* without any further lookup, and no step changes the snapshot or the count.
C4_StaticLookupOnce ==
    /\ [](\A i \in StrRefs :
            /\ lookups[i] = 1
            /\ refs[i].variant = "Static"
            /\ \A acc \in Accessors :
                  Access(refs[i], acc) = ReadOf(Val(refs[i].snap), {}, FALSE))
    /\ [][\A i \in StrRefs : refs'[i] = refs[i] /\ lookups'[i] = lookups[i]]_vars

\* the element the selector matched at construction is no longer what the
\* selector matches, and a read returned the element captured at construction
C4_Witness ==
    \E i \in StrRefs :
        /\ refs[i].snap = "e1" /\ origin[i].arg = "#a" /\ doc["#a"] # "e1"
        /\ last.op = "read" /\ last.out = Val("e1")

\* C10: a lookup that matches nothing or that fails (invalid selector) yields
\* absence and no failure, at construction for the static conversions and at
\* recomputation for the reactive one.
C10_AbsenceNotEscalated ==
    [][/\ \A i \in StrRefs' \ StrRefs :
             NoMatch(origin'[i].arg) => refs'[i] = Static(None)
       /\ \A i \in MemoRefs :
             (lookups'[i] > lookups[i] /\ NoMatch(sel')) =>
                /\ memo'[i].val = None
                /\ last'.out # Panic
                /\ last'.op = "read" => last'.out = Val(None)]_vars

\* the reactive string is the invalid selector, its lookup ran, and the read
\* returned absence
C10_Witness ==
    \E i \in MemoRefs :
        /\ sel = BadSelector /\ memo[i].key = BadSelector /\ memo[i].state = "Clean"
        /\ last.op = "read" /\ last.out = Val(None)

\* C7: for a Static reference every accessor returns the snapshot captured
\* at construction (the try_ forms as Some of it), whatever cells were
\* written, however the document changed and whichever owners were disposed.
C7_FixedSnapshot ==
    /\ [](\A i \in DOMAIN refs : refs[i].variant = "Static" =>
            /\ \A acc \in Accessors :
                  Access(refs[i], acc) = ReadOf(Val(refs[i].snap), {}, FALSE)
            /\ origin[i].how \in {"T", "Option"} => refs[i].snap = origin[i].arg
            /\ origin[i].how = "default" => refs[i].snap = None)
    /\ [][\A i \in DOMAIN refs : refs[i].variant = "Static" => refs'[i] = refs[i]]_vars

\* a Static reference built from a value was read after both owners were
\* disposed and a cell was written, and the read returned the value
C7_Witness ==
    \E i \in DOMAIN refs :
        /\ origin[i].how = "T" /\ refs[i].snap = "e1"
        /\ disposed = Owners /\ opt # None
        /\ last.op = "read" /\ last.out = Val("e1")

\* C8: every reference is Static or Dynamic, and no step changes the variant
\* of an existing reference.
C8_TwoVariants ==
    /\ [](\A i \in DOMAIN refs : refs[i].variant \in {"Static", "Dynamic"})
    /\ [][\A i \in DOMAIN refs : refs'[i].variant = refs[i].variant]_vars

\* a Dynamic reference and its clone exist, and an accessor was called
C8_Witness ==
    /\ Len(refs) >= 2
    /\ refs[1].variant = "Dynamic" /\ origin[2].how = "clone"
    /\ last.op = "read"

\* the source cell's current value, by the conversion that built the reference
SourceNow(i) ==
    CASE HowOf(i) = "Signal<Option<T>>" -> opt
      [] HowOf(i) = "Signal<T>" -> plain
      [] HowOf(i) = "NodeRef" -> IF node_ref = NoBinding THEN None ELSE node_ref.node
      [] OTHER -> memo[RootOf(i)].val

\* C6: a clone of a Dynamic reference is Dynamic and holds the same handle;
\* every accessor returns through the clone what it returns through the
\* original, which is the source cell's current value.
C6_ClonesShareCell ==
    \A j \in DOMAIN refs :
        (origin[j].how = "clone" /\ refs[origin[j].of].variant = "Dynamic") =>
            /\ refs[j].variant = "Dynamic"
            /\ \A acc \in Accessors :
                  Access(refs[j], acc).out = Access(refs[origin[j].of], acc).out
            /\ HowOf(j) # "Signal<String>" => get(refs[j]).out = Val(SourceNow(j))

\* the plain cell was written after the reference was cloned
C6_Witness ==
    \E j \in DOMAIN refs :
        /\ origin[j].how = "clone" /\ HowOf(j) = "Signal<T>"
        /\ last.op = "set_plain" /\ plain = "e2"

\* C9: a computation whose body reads a reference with an untracked accessor
\* subscribes to nothing and never runs again; untracked and tracked forms
\* return the same value.
C9_UntrackedNeverSubscribes ==
    /\ \A e \in Effects :
          (effects[e].created /\ effects[e].acc \in UntrackedAccessors) =>
              effects[e].deps = {} /\ effects[e].runs = 1
    /\ \A i \in DOMAIN refs :
          /\ get_untracked(refs[i]).out = get(refs[i]).out
          /\ with_untracked(refs[i]).out = with(refs[i]).out
          /\ try_get_untracked(refs[i]).out = try_get(refs[i]).out
          /\ try_with_untracked(refs[i]).out = try_with(refs[i]).out

\* a computation read untracked a reference derived from the plain cell, and
\* the cell was then written
C9_Witness ==
    \E e \in Effects :
        /\ effects[e].created /\ effects[e].acc = "get_untracked"
        /\ HowOf(effects[e].ref) = "Signal<T>"
        /\ last.op = "set_plain" /\ plain = "e2"

\* C3: a reference built from a NodeRef returns absence while the handle is
\* unbound and the converted bound instance once it is bound, through every
\* accessor; every computation whose body read it tracked runs again at each
\* bind.
C3_HandleBinding ==
    /\ [](\A i \in NodeRefRefs : \A acc \in Accessors :
            Access(refs[i], acc).out =
                Val(IF node_ref = NoBinding THEN None ELSE node_ref.node))
    /\ [][last'.op = "load" =>
            \A e \in Effects :
                (/\ effects[e].created
                 /\ effects[e].acc \notin UntrackedAccessors
                 /\ effects[e].ref \in NodeRefRefs) =>
                    effects'[e].runs = effects[e].runs + 1]_vars

\* a computation that read the reference tracked before the bind has run
\* again at the bind
C3_Witness ==
    \E e \in Effects :
        /\ effects[e].created /\ effects[e].acc = "get"
        /\ effects[e].ref \in NodeRefRefs /\ effects[e].runs = 2
        /\ last.op = "load" /\ node_ref # NoBinding

\* the cell behind a Dynamic reference, or the owner of the derived signal
\* wrapping it, has been disposed
Gone(i) ==
    CASE refs[i].sig.type = "ReadSignal" -> IsDisposed(OwnerSrc)
      [] OTHER -> IsDisposed(OwnerSrc) \/ IsDisposed(OwnerRef)

\* C2: once the source cell or the owning context of a Dynamic reference has
\* been disposed, the try_ accessors return the outer None and never panic,
\* and the other accessors panic.
C2_TryReturnsNoResult ==
    \A i \in DOMAIN refs :
        (refs[i].variant = "Dynamic" /\ Gone(i)) =>
            \A acc \in Accessors :
                Access(refs[i], acc).out =
                    (IF acc \in TryAccessors THEN NoResult ELSE Panic)

====
